---- MODULE Spec2Model ----
(***************************************************************************)
(* Model of the install worker of icicle (src/src/utils/install.rs):       *)
(* InstallAsyncModel::update, partition, makeconfig and iterwrite.         *)
(*                                                                         *)
(* The worker receives InstallAsyncMsg values one at a time, in the order   *)
(* its channel delivers them: a message sent while update() runs is        *)
(* handled after update() returns, so a message is received only when the  *)
(* worker is idle.  Any sender may send either message at any time.  Every *)
(* external command it runs is an input of the model: it may fail to       *)
(* spawn, exit with a non-zero status, or succeed.  Option<T> values are   *)
(* sequences of length at most one: None is <<>> and Some(v) is <<v>>.     *)
(***************************************************************************)
EXTENDS Integers, Sequences, FiniteSets, TLC

\* Number of messages the worker receives in a behaviour.
MaxMsgs == 3

None == <<>>
Some(v) == <<v>>

----------------------------------------------------------------------------
(* Inputs *)

\* UserConfig values (ui/window.rs: username, password, rootpassword,
\* hostname, name, autologin); carol has an empty hostname.
Users ==
  { [username |-> "bob", password |-> "pw2", rootpassword |-> Some("rpw"),
     hostname |-> "host2", name |-> "Bob", autologin |-> TRUE],
    [username |-> "carol", password |-> "pw3", rootpassword |-> None,
     hostname |-> "", name |-> "Carol", autologin |-> FALSE] }

\* PartitionSchema values: FullDisk(disk) or Custom(map of partitions).
FullDisk(d) == [tag |-> "FullDisk", disk |-> d, parts |-> {}]
Custom(ps) == [tag |-> "Custom", disk |-> "", parts |-> ps]

Schemas ==
  { FullDisk("/dev/sda"),
    Custom({ [device |-> "/dev/sdb1", mountpoint |-> Some("/home")] }),
    Custom({ [device |-> "/dev/sdb1", mountpoint |-> Some("/")],
             [device |-> "/dev/sdb2", mountpoint |-> None] }) }

ConfigTypes == {"Standard", "Snowfall"}

\* The payload of InstallAsyncMsg::Install that the pipeline's control flow
\* reads: partitions, user and configtype.
InstallMsgs ==
  [type : {"Install"},
   partitions : {None} \cup {Some(s) : s \in Schemas},
   user : {None} \cup {Some(u) : u \in Users},
   configtype : ConfigTypes]

FinishInstallMsg ==
  [type |-> "FinishInstall", partitions |-> None, user |-> None,
   configtype |-> "Standard"]

NoMsg ==
  [type |-> "none", partitions |-> None, user |-> None,
   configtype |-> "Standard"]

\* Outcome of one external command.  Command::output(), spawn() and wait()
\* return Err only for an io::Error ("spawnfail": the process cannot be
\* spawned, or its pipes fail); a non-zero exit status is an Ok value that
\* the caller has to inspect.
CmdResults == {"ok", "nonzero", "spawnfail"}

\* The template set under SYSCONFDIR/icicle/<id>: entries in read_dir order.
File(n) == [kind |-> "nix", name |-> n, sub |-> <<>>]
Other(n) == [kind |-> "other", name |-> n, sub |-> <<>>]
Dir(n, s) == [kind |-> "dir", name |-> n, sub |-> s]

FileNames == {"configuration.nix", "default.nix"}

Trees ==
  { << File("configuration.nix") >>,
    << Dir("systems", << File("default.nix") >>), File("configuration.nix"),
       Other("README.md") >>,
    << File("configuration.nix"), Dir("systems", << File("default.nix") >>) >>,
    << Dir("systems", << File("default.nix") >>) >> }

----------------------------------------------------------------------------
(* State *)

VARIABLES
  username,      \* InstallAsyncModel.username
  password,      \* InstallAsyncModel.password
  rootpassword,  \* InstallAsyncModel.rootpassword
  pc,            \* position of the worker inside update()
  msg,           \* the message being handled (the last one handled when idle)
  nmsgs,         \* messages received so far
  out,           \* AppMsg values sent on the outbound channel
  broker,        \* commands sent to INSTALL_BROKER
  runs,          \* Install messages received so far
  runStart,      \* Len(out) when the latest Install was received
  runBroker,     \* Len(broker) when the latest Install was received
  steps,         \* steps executed since the latest Install, with their result
  cmds,          \* privileged commands issued since the latest Install
  failedAt,      \* index in cmds of the first command that failed, 0 if none
  lastErr,       \* cause logged by the latest error!() of the handler
  userpw,        \* chpasswd child of the latest setuserpasswd call
  rootpw,        \* chpasswd child of the latest setrootpasswd call
  bootdisk,      \* MakeConfig.bootdisk handed to makeconfig by this handler
  efi,           \* what Bootloader::detect() found in this handler
  files,         \* what iterwrite did with each .nix file in this handler
  rpc,           \* position of iterwrite within the rendering of one file
  rmc,           \* the MakeConfig, the machine and the template file rendered
  config,        \* iterwrite's `config`: the content of the file so far
  extrapkgs,     \* iterwrite's `extrapkgs`
  lastUser       \* `user` of the most recent Install message received

vars ==
  << username, password, rootpassword, pc, msg, nmsgs, out, broker, runs,
     runStart, runBroker, steps, cmds, failedAt, lastErr, userpw, rootpw,
     bootdisk, efi, files, rpc, rmc, config, extrapkgs, lastUser >>

creds == << username, password, rootpassword >>
channels == << out, broker >>
children == << userpw, rootpw >>
rendered == << bootdisk, efi, files >>
page == << rpc, rmc, config, extrapkgs >>
worker ==
  << username, password, rootpassword, pc, msg, nmsgs, out, broker, runs,
     runStart, runBroker, steps, cmds, failedAt, lastErr, userpw, rootpw,
     bootdisk, efi, files, lastUser >>

----------------------------------------------------------------------------
(* Logs kept for the statements below; the code does not read them. *)

Cmd(c, a) == [cmd |-> c, arg |-> a]
Ran(c, a, r) == [c |-> Cmd(c, a), r |-> r]

Min(S) == CHOOSE x \in S : \A y \in S : x <= y

\* cmds after the commands of `run` were issued, in order.
Issued(run) == cmds \o [i \in 1..Len(run) |-> run[i].c]

\* Unmounting a scratch root on which nothing is mounted ends with a
\* non-zero status; that status is not counted as a failure of the step.
Tolerated(x) == x.c.cmd = "umount" /\ x.r = "nonzero"

\* failedAt after `run`: the first command that failed to spawn, ended with
\* a non-zero status or lost its pipe.
FirstFailure(run) ==
  LET bad == {i \in 1..Len(run) : run[i].r # "ok" /\ ~Tolerated(run[i])}
  IN  IF failedAt # 0 THEN failedAt
      ELSE IF bad = {} THEN 0
      ELSE Len(cmds) + Min(bad)

Step(n, ok) == [name |-> n, ok |-> ok]

----------------------------------------------------------------------------
(* The functions of install.rs *)

\* A variant that retains the password of a user only when a root password
\* comes with it.
RetainPassword_NeedsRoot(user) ==
  IF user = None \/ user[1].rootpassword = None THEN None
  ELSE Some(user[1].password)

\* update, lines 68-70: the fields retained from the Install message.
RetainUsername(user) == IF user = None THEN None ELSE Some(user[1].username)
RetainPassword(user) == IF user = None THEN None ELSE Some(user[1].password)
RetainRootPassword(user) == IF user = None THEN None ELSE user[1].rootpassword

\* update, line 71.
hostname(user) == IF user = None THEN "nixos" ELSE user[1].hostname

\* update, lines 88-100: clear().  Only a spawn error is an Err; the exit
\* status of umount and of rm is never read.
clear(r1, r2) ==
  IF r1 = "spawnfail"
  THEN [ok |-> FALSE, run |-> << Ran("umount", "/tmp/icicle", r1) >>]
  ELSE [ok |-> r2 # "spawnfail",
        run |-> << Ran("umount", "/tmp/icicle", r1),
                   Ran("rm", "/tmp/icicle", r2) >>]

\* A variant of partition that hands a missing scheme to the helper.
partition_NoSchemeCheck(partitions, r) ==
  IF r = "spawnfail"
  THEN [ok |-> FALSE, err |-> "spawn", run |-> << Ran("partition", "", r) >>]
  ELSE IF r = "nonzero"
  THEN [ok |-> FALSE, err |-> "Partitioning failed",
        run |-> << Ran("partition", "", r) >>]
  ELSE [ok |-> TRUE, err |-> "", run |-> << Ran("partition", "", r) >>]

\* partition, lines 278-315.
partition(partitions, r) ==
  IF partitions = None
  THEN [ok |-> FALSE, err |-> "No partitions specified", run |-> << >>]
  ELSE IF r = "spawnfail"
  THEN [ok |-> FALSE, err |-> "spawn",
        run |-> << Ran("partition", partitions[1].tag, r) >>]
  ELSE IF r = "nonzero"
  THEN [ok |-> FALSE, err |-> "Partitioning failed",
        run |-> << Ran("partition", partitions[1].tag, r) >>]
  ELSE [ok |-> TRUE, err |-> "",
        run |-> << Ran("partition", partitions[1].tag, r) >>]

\* update, lines 117-126: only a spawn error is an Err.
generate(r) ==
  [ok |-> r # "spawnfail",
   run |-> << Ran("nixos-generate-config", "/tmp/icicle", r) >>]

\* update, lines 128-154: each output() is unwrapped, so a spawn error
\* panics; the exit status is never read.
relocate(host, r1, r2, r3) ==
  IF r1 = "spawnfail"
  THEN [panic |-> TRUE, run |-> << Ran("mkdir", host, r1) >>]
  ELSE IF r2 = "spawnfail"
  THEN [panic |-> TRUE,
        run |-> << Ran("mkdir", host, r1), Ran("mv", host, r2) >>]
  ELSE [panic |-> r3 = "spawnfail",
        run |-> << Ran("mkdir", host, r1), Ran("mv", host, r2),
                   Ran("rm", "configuration.nix", r3) >>]

\* A variant that takes the device of any entry of a Custom map, mounted at
\* "/" or not.
mbrdisk_AnyEntry(partitions) ==
  IF partitions = None THEN {None}
  ELSE IF partitions[1].tag = "FullDisk" THEN {Some(partitions[1].disk)}
  ELSE IF partitions[1].parts = {} THEN {None}
  ELSE {Some(p.device) : p \in partitions[1].parts}

\* update, lines 159-173: the values mbrdisk can end with.  A Custom map is
\* a HashMap, iterated in no fixed order, and the last "/" entry wins.
mbrdisk(partitions) ==
  IF partitions = None THEN {None}
  ELSE IF partitions[1].tag = "FullDisk" THEN {Some(partitions[1].disk)}
  ELSE LET roots == {p \in partitions[1].parts : p.mountpoint = Some("/")}
       IN  IF roots = {} THEN {None} ELSE {Some(p.device) : p \in roots}

\* A variant that puts a legacy boot stanza without a device into the file.
render_NoBootDisk(mc, env) ==
  IF env.version # "ok"
  THEN [ok |-> FALSE, err |-> "Failed to get nixos version"]
  ELSE [ok |-> TRUE, err |-> ""]

\* iterwrite, lines 369-551: rendering one .nix file.  The boot disk is
\* required whenever the machine is not EFI, and nixos-version has to yield
\* five characters.
render(mc, env) ==
  IF ~env.efi /\ mc.bootdisk = None
  THEN [ok |-> FALSE, err |-> "Failed to get bootloader disk"]
  ELSE IF env.version # "ok"
  THEN [ok |-> FALSE, err |-> "Failed to get nixos version"]
  ELSE [ok |-> TRUE, err |-> ""]

\* iterwrite, lines 354-583.  The result of the recursive call for a
\* directory is dropped (let _ =); the files it wrote stay written.  `path`
\* is the directory below the template root, a sequence of names; `log`
\* tells, for each .nix file reached, how its iteration ended.
RECURSIVE iterwrite(_, _, _, _)
iterwrite(mc, path, entries, env) ==
  IF entries = << >>
  THEN [ok |-> TRUE, err |-> "", run |-> << >>, log |-> << >>]
  ELSE
    LET e == Head(entries)
        rest == iterwrite(mc, path, Tail(entries), env)
    IN  IF e.kind = "dir"
        THEN LET sub == iterwrite(mc, Append(path, e.name), e.sub, env)
             IN  [ok |-> rest.ok, err |-> rest.err,
                  run |-> sub.run \o rest.run, log |-> sub.log \o rest.log]
        ELSE IF e.kind = "nix"
        THEN LET r == render(mc, env)
                 w == Ran("write-file", e.name, env.wres[e.name])
             IN  IF ~r.ok
                 THEN [ok |-> FALSE, err |-> r.err, run |-> << >>,
                       log |-> << [file |-> e.name, path |-> path, res |-> r.err] >>]
                 ELSE IF env.wres[e.name] = "spawnfail"
                 THEN [ok |-> FALSE, err |-> "spawn", run |-> << w >>,
                       log |-> << [file |-> e.name, path |-> path, res |-> "spawn"] >>]
                 ELSE [ok |-> rest.ok, err |-> rest.err,
                       run |-> << w >> \o rest.run,
                       log |-> << [file |-> e.name, path |-> path, res |-> "written"] >>
                                 \o rest.log]
        ELSE rest

\* makeconfig, lines 327-585.
makeconfig(mc, env) ==
  IF env.uname = "spawnfail"
  THEN [ok |-> FALSE, err |-> "Failed to get architecture", run |-> << >>,
        log |-> << >>]
  ELSE IF ~env.dirOk
  THEN [ok |-> FALSE, err |-> "read_dir", run |-> << >>, log |-> << >>]
  ELSE iterwrite(mc, << >>, env.tree, env)

\* What makeconfig finds on the machine.
\* The .nix files of a template set, subdirectories included.
RECURSIVE NixFiles(_)
NixFiles(entries) ==
  IF entries = << >> THEN {}
  ELSE LET e == Head(entries)
       IN  (IF e.kind = "nix" THEN {e.name}
            ELSE IF e.kind = "dir" THEN NixFiles(e.sub) ELSE {})
           \cup NixFiles(Tail(entries))

\* When uname cannot be run or the template directory cannot be read
\* nothing else is looked at, and
\* a file that is not in the set is never written.
Envs ==
  { e \in [efi : BOOLEAN, uname : {"ok"}, dirOk : {TRUE},
           tree : Trees, version : {"ok", "short", "spawnfail"},
           wres : [FileNames -> CmdResults]] :
      \A f \in FileNames \ NixFiles(e.tree) : e.wres[f] = "ok" }
  \cup
  [efi : BOOLEAN, uname : {"ok", "spawnfail"}, dirOk : {FALSE},
   tree : {<< >>}, version : {"ok"}, wres : {[f \in FileNames |-> "ok"]}]

\* update, line 191: the installer is dispatched when a user is configured.
HasHostname(user) == user # None

\* A variant that names the flake after the default host name of line 71.
FlakeTarget_Default(user) == "nixos"

\* update, line 202: the flake target of the installer command.
FlakeTarget(user) == user[1].hostname

\* update, lines 192-207: the command sent to INSTALL_BROKER.
InstallCommand(user) ==
  [prog |-> "nixos-install", root |-> "/tmp/icicle",
   flake |-> FlakeTarget(user)]

\* A variant in which the Install arm runs on into the FinishInstall arm.
AfterDispatch_FallThrough == "setuserpasswd"

\* update, lines 207-212: the Install arm ends after the dispatch.
AfterDispatch == "idle"

\* A variant that pipes the credentials without looking whether they are
\* there.
setuserpasswd_NoContext(u, p, sp, wr) ==
  IF sp = "spawnfail"
  THEN [ok |-> FALSE, err |-> "spawn", spawned |-> FALSE, r |-> "spawnfail"]
  ELSE IF wr = "ioerr"
  THEN [ok |-> FALSE, err |-> "write", spawned |-> TRUE, r |-> "ioerr"]
  ELSE [ok |-> TRUE, err |-> "", spawned |-> TRUE, r |-> "ok"]

\* update, lines 216-238: setuserpasswd.  The child is spawned first; the
\* arguments of format! are checked next; the child is never waited for.
setuserpasswd(u, p, sp, wr) ==
  IF sp = "spawnfail"
  THEN [ok |-> FALSE, err |-> "spawn", spawned |-> FALSE, r |-> "spawnfail"]
  ELSE IF u = None
  THEN [ok |-> FALSE, err |-> "No username found", spawned |-> TRUE,
        r |-> "ok"]
  ELSE IF p = None
  THEN [ok |-> FALSE, err |-> "No password found", spawned |-> TRUE,
        r |-> "ok"]
  ELSE IF wr = "ioerr"
  THEN [ok |-> FALSE, err |-> "write", spawned |-> TRUE, r |-> "ioerr"]
  ELSE [ok |-> TRUE, err |-> "", spawned |-> TRUE, r |-> "ok"]

\* update, lines 248-263: setrootpasswd.
setrootpasswd(rp, sp, wr) ==
  IF sp = "spawnfail"
  THEN [ok |-> FALSE, err |-> "spawn", spawned |-> FALSE, r |-> "spawnfail"]
  ELSE IF wr = "ioerr"
  THEN [ok |-> FALSE, err |-> "write", spawned |-> TRUE, r |-> "ioerr"]
  ELSE [ok |-> TRUE, err |-> "", spawned |-> TRUE, r |-> "ok"]

----------------------------------------------------------------------------
(* The content of one rendered file: iterwrite, lines 369-551 *)

\* A file content is a sequence of tokens: pieces of literal text, @NAME@
\* markers, and the stanzas and values that replace markers.  A string that
\* the code takes apart is a sequence of characters; any other string is
\* one chunk.
Str(s) == << s >>
Text(n) == [kind |-> "text", name |-> n, args |-> << >>]
Marker(n) == [kind |-> "marker", name |-> n, args |-> << >>]
Stanza(n, a) == [kind |-> "stanza", name |-> n, args |-> a]
Value(v) == [kind |-> "value", name |-> "", args |-> << v >>]

\* A variant of str::replace that stops after the first match.
RECURSIVE Replace_FirstOnly(_, _, _)
Replace_FirstOnly(cfg, m, with) ==
  IF cfg = << >> THEN << >>
  ELSE IF Head(cfg) = Marker(m) THEN with \o Tail(cfg)
  ELSE << Head(cfg) >> \o Replace_FirstOnly(Tail(cfg), m, with)

\* str::replace: every match of the pattern is replaced.
RECURSIVE Replace(_, _, _)
Replace(cfg, m, with) ==
  IF cfg = << >> THEN << >>
  ELSE (IF Head(cfg) = Marker(m) THEN with ELSE << Head(cfg) >>)
       \o Replace(Tail(cfg), m, with)

\* keymap.contains('+')
ContainsPlus(k) == \E i \in DOMAIN k : k[i] = "+"

\* The position of the first '+' at or after position i, Len(k) + 1 when
\* there is none.
NextPlus(k, i) ==
  LET ps == {j \in i..Len(k) : k[j] = "+"}
  IN  IF ps = {} THEN Len(k) + 1 ELSE Min(ps)

\* A variant in which the variant is everything after the first '+'.
SplitKeymap_Rest(k) ==
  [layout |-> SubSeq(k, 1, NextPlus(k, 1) - 1),
   variant |-> SubSeq(k, NextPlus(k, 1) + 1, Len(k))]

\* lines 438-439: the first two items of keymap.split('+').
SplitKeymap(k) ==
  LET p1 == NextPlus(k, 1)
      p2 == NextPlus(k, p1 + 1)
  IN  [layout |-> SubSeq(k, 1, p1 - 1), variant |-> SubSeq(k, p1 + 1, p2 - 1)]

\* lines 436-464
KeyboardStanza(keymap) ==
  IF ContainsPlus(keymap)
  THEN Stanza("keyboard-variant",
              << SplitKeymap(keymap).layout, SplitKeymap(keymap).variant >>)
  ELSE Stanza("keyboard", << keymap >>)

\* lines 475-497: the four replacements made when a user is configured.
SubstituteUserMarkers(cfg, user) ==
  IF user = None THEN cfg
  ELSE
    LET u == user[1]
        c1 == Replace(cfg, "USERNAME", << Value(Str(u.username)) >>)
        c2 == Replace(c1, "FULLNAME", << Value(Str(u.name)) >>)
        c3 == Replace(c2, "HOSTNAME", << Value(Str(u.hostname)) >>)
        autocfg == IF u.autologin
                   THEN << Stanza("autologin", << Str(u.username) >>),
                           Stanza("getty-workaround", << >>) >>
                   ELSE << >>
    IN  Replace(c3, "AUTOLOGIN", autocfg)

\* Choice (utils/parse.rs) as read at lines 504-512.
Choice(pk, cf) == [packages |-> pk, config |-> cf]
Sel(id, key, ch) == [id |-> id, key |-> key, choice |-> ch]

\* The HashMap<String, HashMap<String, Choice>> holding the selected options.
ListOf(selection) ==
  LET ids == {selection[i].id : i \in DOMAIN selection}
      keys(id) == {selection[i].key :
                     i \in {j \in DOMAIN selection : selection[j].id = id}}
      at(id, key) ==
        selection[CHOOSE i \in DOMAIN selection :
                    selection[i].id = id /\ selection[i].key = key].choice
  IN  [id \in ids |-> [key \in keys(id) |-> at(id, key)]]

Perms(S) ==
  {q \in [1..Cardinality(S) -> S] :
     \A i, j \in 1..Cardinality(S) : q[i] = q[j] => i = j}

\* The orders in which list.iter() and choices.iter() can yield the entries
\* of the two levels of HashMap: any order.
IterOrders(list) ==
  LET D == DOMAIN list
      inner == {k \in [D -> UNION {Perms(DOMAIN list[id]) : id \in D}] :
                  \A id \in D : k[id] \in Perms(DOMAIN list[id])}
  IN  {[i \in DOMAIN q |-> [id |-> q[i], keys |-> k[q[i]]]] :
         q \in Perms(D), k \in inner}

\* lines 502-513: the choices of one group.
RECURSIVE GroupLoop(_, _)
GroupLoop(choices, keys) ==
  IF keys = << >> THEN [pkgs |-> << >>, listcfg |-> << >>]
  ELSE
    LET ch == choices[Head(keys)]
        rest == GroupLoop(choices, Tail(keys))
    IN  [pkgs |-> (IF ch.packages # None THEN ch.packages[1] ELSE << >>)
                  \o rest.pkgs,
         listcfg |-> (IF ch.config # None
                      THEN [i \in DOMAIN ch.config[1] |->
                              Stanza("line", << Str(ch.config[1][i]) >>)]
                      ELSE << >>)
                     \o rest.listcfg]

\* A variant that drops a package already in the list.
RECURSIVE ListLoop_Dedup(_, _, _, _)
ListLoop_Dedup(cfg, pkgs, list, order) ==
  IF order = << >> THEN [config |-> cfg, extrapkgs |-> pkgs]
  ELSE
    LET g == GroupLoop(list[Head(order).id], Head(order).keys)
        new == SelectSeq(g.pkgs, LAMBDA x : \A i \in DOMAIN pkgs : pkgs[i] # x)
    IN  ListLoop_Dedup(Replace(cfg, Head(order).id, g.listcfg),
                       pkgs \o new, list, Tail(order))

\* lines 499-515: the loop over the groups, in the order the map yields them.
RECURSIVE ListLoop(_, _, _, _)
ListLoop(cfg, pkgs, list, order) ==
  IF order = << >> THEN [config |-> cfg, extrapkgs |-> pkgs]
  ELSE
    LET g == GroupLoop(list[Head(order).id], Head(order).keys)
    IN  ListLoop(Replace(cfg, Head(order).id, g.listcfg),
                 pkgs \o g.pkgs, list, Tail(order))

\* lines 517-535
PackagesStanza(pkgs) ==
  Stanza("packages", << Str("firefox") >> \o [i \in DOMAIN pkgs |-> Str(pkgs[i])])

\* Inputs of one rendering.
Keymaps ==
  { << "u", "s" >>, << "u", "s", "+", "i" >>, << "u", "+", "i", "+", "x" >>,
    << "u", "+" >> }

Selections ==
  { << >>,
    << Sel("gpu", "a", Choice(Some(<< "pkgA" >>), Some(<< "lineA" >>))),
       Sel("office", "b", Choice(Some(<< "pkgB", "pkgC" >>), None)) >>,
    << Sel("gpu", "a", Choice(Some(<< "pkgA" >>), None)),
       Sel("gpu", "b", Choice(Some(<< "pkgB", "pkgC" >>), None)) >>,
    << Sel("gpu", "a", Choice(Some(<< "pkgA" >>), None)),
       Sel("office", "b", Choice(Some(<< "pkgA" >>), Some(<< "l1", "l2" >>))) >>,
    << Sel("gpu", "n", Choice(None, Some(<< "lineN" >>))) >> }

Templates ==
  { << Text("{"), Marker("BOOTLOADER"), Marker("NETWORK"), Marker("TIMEZONE"),
       Marker("KEYBOARD"), Marker("DESKTOP"), Marker("AUTOLOGIN"),
       Marker("USERNAME"), Marker("FULLNAME"), Marker("gpu"),
       Marker("PACKAGES"), Marker("STATEVERSION"), Text("}") >>,
    << Marker("HOSTNAME"), Marker("KEYBOARD"), Text("#"), Marker("HOSTNAME"),
       Marker("KEYBOARD"), Marker("office"), Marker("PACKAGES"),
       Marker("PACKAGES") >>,
    << Text("{"), Text("}") >> }

RenderInputs ==
  [template : Templates,
   keyboard : {None} \cup {Some(k) : k \in Keymaps},
   timezone : {None, Some("UTC")},
   language : {None, Some("en_US.UTF-8")},
   user : {None} \cup {Some(u) : u \in Users},
   selection : Selections,
   efi : BOOLEAN,
   bootdisk : {None, Some("/dev/sda")},
   version : {"ok", "short"}]

NoRender ==
  [template |-> << >>, keyboard |-> None, timezone |-> None,
   language |-> None, user |-> None,
   selection |-> << >>, efi |-> TRUE, bootdisk |-> None, version |-> "ok"]

----------------------------------------------------------------------------
(* The worker: InstallAsyncModel::init and ::update, one action per step *)

\* init, lines 48-54.
WorkerInit ==
  /\ lastUser = None
  /\ username = None
  /\ password = None
  /\ rootpassword = None
  /\ pc = "idle"
  /\ msg = NoMsg
  /\ nmsgs = 0
  /\ out = << >>
  /\ broker = << >>
  /\ runs = 0
  /\ runStart = 0
  /\ runBroker = 0
  /\ steps = << >>
  /\ cmds = << >>
  /\ failedAt = 0
  /\ lastErr = ""
  /\ userpw = "none"
  /\ rootpw = "none"
  /\ bootdisk = None
  /\ efi = FALSE
  /\ files = << >>

Init ==
  /\ WorkerInit
  /\ rpc = "none"
  /\ rmc = NoRender
  /\ config = << >>
  /\ extrapkgs = << >>

\* error!(...); sender.output(AppMsg::Error); return.
Fail(cause) ==
  /\ out' = Append(out, "Error")
  /\ lastErr' = cause
  /\ pc' = "idle"

\* update, lines 58-85: an Install message arrives; the credentials are
\* retained and the architecture is queried.
RecvInstall ==
  /\ pc = "idle"
  /\ nmsgs < MaxMsgs
  /\ \E m \in InstallMsgs, uname \in {"ok", "spawnfail"} :
       /\ msg' = m
       /\ lastUser' = m.user
       /\ username' = RetainUsername(m.user)
       /\ password' = RetainPassword(m.user)
       /\ rootpassword' = RetainRootPassword(m.user)
       /\ IF uname = "spawnfail"
          THEN Fail("Failed to get architecture")
          ELSE /\ pc' = "clear"
               /\ out' = out
               /\ lastErr' = ""
  /\ nmsgs' = nmsgs + 1
  /\ runs' = runs + 1
  /\ runStart' = Len(out)
  /\ runBroker' = Len(broker)
  /\ steps' = << >>
  /\ cmds' = << >>
  /\ failedAt' = 0
  /\ userpw' = "none"
  /\ rootpw' = "none"
  /\ bootdisk' = None
  /\ efi' = FALSE
  /\ files' = << >>
  /\ UNCHANGED << broker, page >>

\* update, lines 86-105: step 0.
ClearWorkspace ==
  /\ pc = "clear"
  /\ \E r1 \in CmdResults, r2 \in CmdResults :
       LET c == clear(r1, r2) IN
       /\ cmds' = Issued(c.run)
       /\ failedAt' = FirstFailure(c.run)
       /\ steps' = Append(steps, Step("ClearWorkspace", c.ok))
       /\ IF c.ok
          THEN pc' = "partition" /\ UNCHANGED << out, lastErr >>
          ELSE Fail("Failed to clear /tmp/icicle")
  /\ UNCHANGED << creds, msg, nmsgs, broker, runs, runStart, runBroker, children >>
  /\ UNCHANGED << rendered, page, lastUser >>

\* update, lines 107-113: step 1.
ApplyPartitions ==
  /\ pc = "partition"
  /\ \E r \in CmdResults :
       LET p == partition(msg.partitions, r) IN
       /\ cmds' = Issued(p.run)
       /\ failedAt' = FirstFailure(p.run)
       /\ steps' = Append(steps, Step("ApplyPartitions", p.ok))
       /\ IF p.ok
          THEN pc' = "generate" /\ UNCHANGED << out, lastErr >>
          ELSE Fail(p.err)
  /\ UNCHANGED << creds, msg, nmsgs, broker, runs, runStart, runBroker, children >>
  /\ UNCHANGED << rendered, page, lastUser >>

\* update, lines 115-128: step 2, and the choice of the layout.
GenerateBaseConfig ==
  /\ pc = "generate"
  /\ \E r \in CmdResults :
       LET g == generate(r) IN
       /\ cmds' = Issued(g.run)
       /\ failedAt' = FirstFailure(g.run)
       /\ steps' = Append(steps, Step("GenerateBaseConfig", g.ok))
       /\ IF g.ok
          THEN /\ pc' = IF msg.configtype = "Snowfall"
                        THEN "relocate" ELSE "makeconfig"
               /\ UNCHANGED << out, lastErr >>
          ELSE Fail("Failed to generate base config")
  /\ UNCHANGED << creds, msg, nmsgs, broker, runs, runStart, runBroker, children >>
  /\ UNCHANGED << rendered, page, lastUser >>

\* update, lines 128-154: the Snowfall layout.  A panic ends the worker.
RelocateForStructuredLayout ==
  /\ pc = "relocate"
  /\ \E r1 \in CmdResults, r2 \in CmdResults, r3 \in CmdResults :
       LET m == relocate(hostname(msg.user), r1, r2, r3) IN
       /\ cmds' = Issued(m.run)
       /\ failedAt' = FirstFailure(m.run)
       /\ steps' = Append(steps, Step("RelocateForStructuredLayout", ~m.panic))
       /\ pc' = IF m.panic THEN "panicked" ELSE "makeconfig"
  /\ UNCHANGED << creds, msg, nmsgs, channels, runs, runStart, runBroker, lastErr,
                  children >>
  /\ UNCHANGED << rendered, page, lastUser >>

\* update, lines 156-187: step 3.
RenderConfig ==
  /\ pc = "makeconfig"
  /\ \E disk \in mbrdisk(msg.partitions), env \in Envs :
       LET r == makeconfig([user |-> msg.user, bootdisk |-> disk], env) IN
       /\ cmds' = Issued(r.run)
       /\ failedAt' = FirstFailure(r.run)
       /\ steps' = Append(steps, Step("RenderConfig", r.ok))
       /\ bootdisk' = disk
       /\ efi' = env.efi
       /\ files' = r.log
       /\ IF r.ok
          THEN pc' = "install" /\ UNCHANGED << out, lastErr >>
          ELSE Fail(r.err)
  /\ UNCHANGED << creds, msg, nmsgs, broker, runs, runStart, runBroker, children >>
  /\ UNCHANGED << page, lastUser >>

\* update, lines 189-212: step 4.
InvokeInstaller ==
  /\ pc = "install"
  /\ IF HasHostname(msg.user)
     THEN /\ broker' = Append(broker, InstallCommand(msg.user))
          /\ steps' = Append(steps, Step("InvokeInstaller", TRUE))
          /\ pc' = AfterDispatch
          /\ UNCHANGED << out, lastErr >>
     ELSE /\ steps' = Append(steps, Step("InvokeInstaller", FALSE))
          /\ Fail("No hostname found")
          /\ UNCHANGED broker
  /\ UNCHANGED << creds, msg, nmsgs, runs, runStart, runBroker, cmds, failedAt,
                  children >>
  /\ UNCHANGED << rendered, page, lastUser >>

\* update, line 213: a FinishInstall message arrives.
RecvFinishInstall ==
  /\ pc = "idle"
  /\ nmsgs < MaxMsgs
  /\ msg' = FinishInstallMsg
  /\ nmsgs' = nmsgs + 1
  /\ pc' = "setuserpasswd"
  /\ lastErr' = ""
  /\ userpw' = "none"
  /\ rootpw' = "none"
  /\ bootdisk' = None
  /\ efi' = FALSE
  /\ files' = << >>
  /\ UNCHANGED << creds, channels, runs, runStart, runBroker, steps, cmds, failedAt >>
  /\ UNCHANGED << page, lastUser >>

\* update, lines 214-247: step 5.
SetUserPassword ==
  /\ pc = "setuserpasswd"
  /\ \E sp \in {"ok", "spawnfail"}, wr \in {"ok", "ioerr"} :
       LET s == setuserpasswd(username, password, sp, wr)
           run == << Ran("chpasswd", "user", s.r) >>
       IN
       /\ cmds' = Issued(run)
       /\ failedAt' = FirstFailure(run)
       /\ steps' = Append(steps, Step("SetUserPassword", s.ok))
       /\ userpw' = IF s.spawned THEN "running" ELSE "none"
       /\ IF s.ok
          THEN /\ pc' = IF rootpassword # None THEN "setrootpasswd" ELSE "finish"
               /\ UNCHANGED << out, lastErr >>
          ELSE Fail(s.err)
  /\ UNCHANGED << creds, msg, nmsgs, broker, runs, runStart, runBroker, rootpw >>
  /\ UNCHANGED << rendered, page, lastUser >>

\* update, lines 245-270: step 6.
SetRootPassword ==
  /\ pc = "setrootpasswd"
  /\ \E sp \in {"ok", "spawnfail"}, wr \in {"ok", "ioerr"} :
       LET s == setrootpasswd(rootpassword[1], sp, wr)
           run == << Ran("chpasswd", "root", s.r) >>
       IN
       /\ cmds' = Issued(run)
       /\ failedAt' = FirstFailure(run)
       /\ steps' = Append(steps, Step("SetRootPassword", s.ok))
       /\ rootpw' = IF s.spawned THEN "running" ELSE "none"
       /\ IF s.ok
          THEN pc' = "finish" /\ UNCHANGED << out, lastErr >>
          ELSE Fail(s.err)
  /\ UNCHANGED << creds, msg, nmsgs, broker, runs, runStart, runBroker, userpw >>
  /\ UNCHANGED << rendered, page, lastUser >>

\* update, line 272.
Finished ==
  /\ pc = "finish"
  /\ out' = Append(out, "Finished")
  /\ steps' = Append(steps, Step("Finished", TRUE))
  /\ pc' = "idle"
  /\ UNCHANGED << creds, msg, nmsgs, broker, runs, runStart, runBroker, cmds,
                  failedAt, lastErr, children >>
  /\ UNCHANGED << rendered, page, lastUser >>

\* A chpasswd child that update spawned and never waits for ends, with a
\* zero or a non-zero status; nothing in the worker observes it.
UserChildExit ==
  /\ userpw = "running"
  /\ \E st \in {"ok", "failed"} : userpw' = st
  /\ UNCHANGED << creds, pc, msg, nmsgs, channels, runs, runStart, runBroker, steps,
                  cmds, failedAt, lastErr, rootpw >>
  /\ UNCHANGED << rendered, page, lastUser >>

RootChildExit ==
  /\ rootpw = "running"
  /\ \E st \in {"ok", "failed"} : rootpw' = st
  /\ UNCHANGED << creds, pc, msg, nmsgs, channels, runs, runStart, runBroker, steps,
                  cmds, failedAt, lastErr, userpw >>
  /\ UNCHANGED << rendered, page, lastUser >>

Next ==
  \/ RecvInstall
  \/ ClearWorkspace
  \/ ApplyPartitions
  \/ GenerateBaseConfig
  \/ RelocateForStructuredLayout
  \/ RenderConfig
  \/ InvokeInstaller
  \/ RecvFinishInstall
  \/ SetUserPassword
  \/ SetRootPassword
  \/ Finished
  \/ UserChildExit
  \/ RootChildExit

Spec == Init /\ [][Next]_vars

\* The steps update takes by itself once a message is being handled.
HandlerStep ==
  \/ ClearWorkspace
  \/ ApplyPartitions
  \/ GenerateBaseConfig
  \/ RelocateForStructuredLayout
  \/ RenderConfig
  \/ InvokeInstaller
  \/ SetUserPassword
  \/ SetRootPassword
  \/ Finished

\* update runs on the worker's thread until it returns, and every command
\* it waits for ends: a handler that can take its next step takes it.  A
\* spawned chpasswd ends as well.  Which messages arrive is left open.
SpecLive ==
  /\ Spec
  /\ WF_vars(HandlerStep)
  /\ WF_vars(UserChildExit)
  /\ WF_vars(RootChildExit)

----------------------------------------------------------------------------
(* The rendering of one template file, replacement by replacement *)

\* line 369: fs::read_to_string, for any MakeConfig, machine and file.
RenderInit ==
  /\ WorkerInit
  /\ rmc \in RenderInputs
  /\ rpc = "read"
  /\ config = rmc.template
  /\ extrapkgs = << >>

\* lines 370-434: @NVIDIAOFFLOAD@, @ARCH@, @BOOTLOADER@, @NETWORK@,
\* @TIMEZONE@ and @LOCALE@.
SubstituteMachine ==
  /\ rpc = "read"
  /\ IF ~rmc.efi /\ rmc.bootdisk = None
     THEN /\ rpc' = "failed"
          /\ config' = Replace(Replace(config, "NVIDIAOFFLOAD", << >>),
                               "ARCH", << Value(Str("x86_64-linux")) >>)
     ELSE
       LET c1 == Replace(config, "NVIDIAOFFLOAD", << >>)
           c2 == Replace(c1, "ARCH", << Value(Str("x86_64-linux")) >>)
           c3 == Replace(c2, "BOOTLOADER",
                         IF rmc.efi THEN << Stanza("systemd-boot", << >>) >>
                         ELSE << Stanza("grub", << Str(rmc.bootdisk[1]) >>) >>)
           c4 == Replace(c3, "NETWORK",
                         << Stanza("network", << Str(hostname(rmc.user)) >>) >>)
           c5 == IF rmc.timezone # None
                 THEN Replace(c4, "TIMEZONE",
                              << Stanza("timezone", << Str(rmc.timezone[1]) >>) >>)
                 ELSE c4
           c6 == IF rmc.language # None
                 THEN Replace(c5, "LOCALE",
                              << Stanza("locale", << Str(rmc.language[1]) >>) >>)
                 ELSE c5
       IN  /\ config' = c6
           /\ rpc' = "keyboard"
  /\ UNCHANGED << worker, rmc, extrapkgs >>

\* lines 436-464: @KEYBOARD@.
SubstituteKeyboard ==
  /\ rpc = "keyboard"
  /\ config' = IF rmc.keyboard # None
               THEN Replace(config, "KEYBOARD",
                            << KeyboardStanza(rmc.keyboard[1]) >>)
               ELSE config
  /\ rpc' = "user"
  /\ UNCHANGED << worker, rmc, extrapkgs >>

\* lines 466-497: @DESKTOP@, then @USERNAME@, @FULLNAME@, @HOSTNAME@ and
\* @AUTOLOGIN@.
SubstituteUser ==
  /\ rpc = "user"
  /\ config' = SubstituteUserMarkers(
                 Replace(config, "DESKTOP", << Stanza("gnome", << >>) >>),
                 rmc.user)
  /\ rpc' = "list"
  /\ UNCHANGED << worker, rmc, extrapkgs >>

\* lines 499-515: one marker per group of the selection map.
SubstituteList ==
  /\ rpc = "list"
  /\ \E order \in IterOrders(ListOf(rmc.selection)) :
       LET r == ListLoop(config, << >>, ListOf(rmc.selection), order) IN
       /\ config' = r.config
       /\ extrapkgs' = r.extrapkgs
  /\ rpc' = "packages"
  /\ UNCHANGED << worker, rmc >>

\* lines 517-535: @PACKAGES@.
SubstitutePackages ==
  /\ rpc = "packages"
  /\ config' = Replace(config, "PACKAGES", << PackagesStanza(extrapkgs) >>)
  /\ rpc' = "stateversion"
  /\ UNCHANGED << worker, rmc, extrapkgs >>

\* lines 537-551: @STATEVERSION@; the content is then handed to write-file.
SubstituteStateVersion ==
  /\ rpc = "stateversion"
  /\ IF rmc.version = "ok"
     THEN /\ config' = Replace(config, "STATEVERSION",
                               << Stanza("stateVersion", << >>) >>)
          /\ rpc' = "written"
     ELSE /\ rpc' = "failed"
          /\ UNCHANGED config
  /\ UNCHANGED << worker, rmc, extrapkgs >>

RenderNext ==
  \/ SubstituteMachine
  \/ SubstituteKeyboard
  \/ SubstituteUser
  \/ SubstituteList
  \/ SubstitutePackages
  \/ SubstituteStateVersion

SpecRender == RenderInit /\ [][RenderNext]_vars

----------------------------------------------------------------------------
(* A run is one Install message together with the FinishInstall messages   *)
(* that follow it, up to the next Install.                                  *)

Range(q) == {q[i] : i \in DOMAIN q}
Last(q) == q[Len(q)]

\* The outcome messages and the installer commands of the current run.
RunOut == SubSeq(out, runStart + 1, Len(out))
RunDispatched == SubSeq(broker, runBroker + 1, Len(broker))

Did(n) == \E i \in DOMAIN steps : steps[i].name = n
DidOk(n) == \E i \in DOMAIN steps : steps[i] = Step(n, TRUE)
AllStepsOk == \A i \in DOMAIN steps : steps[i].ok

Rank(n) ==
  CASE n = "ClearWorkspace" -> 1
    [] n = "ApplyPartitions" -> 2
    [] n = "GenerateBaseConfig" -> 3
    [] n = "RelocateForStructuredLayout" -> 4
    [] n = "RenderConfig" -> 5
    [] n = "InvokeInstaller" -> 6
    [] n = "SetUserPassword" -> 7
    [] n = "SetRootPassword" -> 8
    [] n = "Finished" -> 9

\* The steps every run goes through; the relocation and the root password
\* depend on the request.
Mandatory ==
  {"ClearWorkspace", "ApplyPartitions", "GenerateBaseConfig", "RenderConfig",
   "InvokeInstaller", "SetUserPassword"}

CredentialSteps == {"SetUserPassword", "SetRootPassword", "Finished"}

----------------------------------------------------------------------------
(* C1 *)

\* C1: in every run the steps are executed in the fixed order
\* ClearWorkspace, ApplyPartitions, GenerateBaseConfig, (Relocate),
\* RenderConfig, InvokeInstaller, ProvisionCredentials, Finished: no step is
\* executed twice, and a step starts only after every earlier mandatory step
\* of the run has completed successfully.
StepsInOrder ==
  /\ \A i, j \in DOMAIN steps :
       i < j => Rank(steps[i].name) < Rank(steps[j].name)
  /\ \A j \in DOMAIN steps :
       \A n \in Mandatory :
         Rank(n) < Rank(steps[j].name) =>
           \E i \in 1..(j - 1) : steps[i] = Step(n, TRUE)

C1_FixedOrder == runs > 0 => StepsInOrder

\* The part of C1 that the Install arm alone decides: while an Install
\* message is the latest message, the order holds.
C1_OrderWithinInstall == msg.type = "Install" => StepsInOrder

----------------------------------------------------------------------------
(* C2 *)

NoSchemeRun == msg.type = "Install" /\ msg.partitions = None

\* No step after ApplyPartitions has run or is about to run.
StoppedBeforeGenerate ==
  /\ \A i \in DOMAIN steps :
       steps[i].name \in {"ClearWorkspace", "ApplyPartitions"}
  /\ \A i \in DOMAIN cmds : cmds[i].cmd \in {"umount", "rm"}
  /\ pc \in {"clear", "partition", "idle"}
  /\ RunDispatched = << >>

----------------------------------------------------------------------------
(* C3 *)

\* C3: a privileged command that fails to spawn or exits with a non-zero
\* status is never ignored: no further command is issued in the run and the
\* run has emitted Error; a password command that ended with a non-zero
\* status leaves Error as the latest outcome of the run.
C3_FailureNeverIgnored ==
  /\ failedAt # 0 =>
       /\ Len(cmds) = failedAt
       /\ "Error" \in Range(RunOut)
  /\ (userpw = "failed" \/ rootpw = "failed") =>
       /\ RunOut # << >>
       /\ Last(RunOut) = "Error"

----------------------------------------------------------------------------
(* C4 *)

\* C4: a run emits at most one outcome message.
C4_AtMostOneOutcome == runs > 0 => Len(RunOut) <= 1

----------------------------------------------------------------------------
(* C5 *)

\* C5: a run whose Install request has no user never dispatches the
\* installer command, and once its handler has ended the run has emitted
\* Error.
C5_NoUserEndsWithError ==
  (msg.type = "Install" /\ msg.user = None) =>
    /\ RunDispatched = << >>
    /\ pc \in {"idle", "panicked"} => RunOut = << "Error" >>

\* The same statement for the handlers that return.
C5_NoUserReturnsError ==
  (msg.type = "Install" /\ msg.user = None) =>
    /\ RunDispatched = << >>
    /\ pc = "idle" => RunOut = << "Error" >>

----------------------------------------------------------------------------
(* C6 *)

\* C6: every dispatched installer command belongs to a user with a
\* non-empty hostname; a request whose user has an empty hostname dispatches
\* nothing and ends with Error.
C6_DispatchNeedsHostname ==
  /\ \A i \in DOMAIN broker : broker[i].flake # ""
  /\ (msg.type = "Install" /\ msg.user # None /\ pc = "idle") =>
       (msg.user[1].hostname = "" =>
          /\ RunDispatched = << >>
          /\ RunOut = << "Error" >>)

----------------------------------------------------------------------------
(* C7 *)

\* C7: a run with a partition scheme and a user in which no step fails
\* dispatches exactly one installer command, whose flake target is the
\* user's hostname, and emits nothing while handling Install; a FinishInstall
\* after it, when its password steps succeed too, sets the user's password
\* (and root's, if one was given) and ends by emitting Finished.
C7_SuccessfulRun ==
  /\ Len(RunDispatched) <= 1
  /\ ( /\ msg.type = "Install"
       /\ msg.partitions # None
       /\ msg.user # None
       /\ pc = "idle"
       /\ AllStepsOk
       /\ lastErr = "" ) =>
       /\ DidOk("RenderConfig")
       /\ Last(steps) = Step("InvokeInstaller", TRUE)
       /\ RunDispatched =
            << [prog |-> "nixos-install", root |-> "/tmp/icicle",
                flake |-> msg.user[1].hostname] >>
       /\ RunOut = << >>
  /\ ( /\ msg.type = "FinishInstall"
       /\ pc = "idle"
       /\ AllStepsOk
       /\ lastErr = ""
       /\ Len(RunDispatched) = 1 ) =>
       /\ DidOk("SetUserPassword")
       /\ rootpassword # None => DidOk("SetRootPassword")
       /\ Last(steps) = Step("Finished", TRUE)
       /\ Last(out) = "Finished"

C7_Witness ==
  /\ msg.type = "FinishInstall"
  /\ pc = "idle"
  /\ AllStepsOk
  /\ failedAt = 0
  /\ username = Some("bob")
  /\ \E i \in DOMAIN cmds : cmds[i] = Cmd("partition", "FullDisk")
  /\ RunDispatched =
       << [prog |-> "nixos-install", root |-> "/tmp/icicle",
           flake |-> "host2"] >>
  /\ userpw = "ok"
  /\ rootpw = "ok"
  /\ RunOut = << "Finished" >>

----------------------------------------------------------------------------
(* C8 *)

\* C8: as long as the latest message is an Install (or none), no password
\* command has been spawned, no credential step has run and Finished has not
\* been emitted in the run; and once the Install handler has dispatched the
\* installer command it has returned without any outcome.
C8_InstallReturnsAfterDispatch ==
  msg.type \in {"Install", "none"} =>
    /\ \A i \in DOMAIN steps : steps[i].name \notin CredentialSteps
    /\ \A i \in DOMAIN cmds : cmds[i].cmd # "chpasswd"
    /\ userpw = "none" /\ rootpw = "none"
    /\ "Finished" \notin Range(RunOut)
    /\ pc \notin {"setuserpasswd", "setrootpasswd", "finish"}
    /\ RunDispatched # << >> => (pc = "idle" /\ RunOut = << >>)

C8_Witness ==
  /\ msg.type = "Install"
  /\ pc = "idle"
  /\ Len(RunDispatched) = 1
  /\ RunOut = << >>
  /\ Last(steps) = Step("InvokeInstaller", TRUE)

----------------------------------------------------------------------------
(* C9 *)

\* C9: the retained credentials are populated only between the installer
\* dispatch and the end of credential provisioning: they are empty before
\* the installer has been dispatched and after Finished.
C9_CredentialsOnlyWhileAwaiting ==
  (username # None \/ password # None \/ rootpassword # None) =>
    /\ DidOk("InvokeInstaller")
    /\ ~Did("Finished")

----------------------------------------------------------------------------
(* C10 *)

\* Finished has just been emitted by the FinishInstall handler.
JustFinished ==
  /\ msg.type = "FinishInstall"
  /\ pc = "idle"
  /\ steps # << >>
  /\ Last(steps).name = "Finished"

\* C10: the root-password step runs only right after a successful
\* user-password step and only when a root password was supplied; Finished
\* follows the last password step of the request; and at the moment Finished
\* is emitted the user's password command has succeeded, and so has root's
\* when a root password was supplied.
C10_FinishedAfterPasswordsSet ==
  /\ \A i \in DOMAIN steps :
       steps[i].name = "SetRootPassword" =>
         /\ rootpassword # None
         /\ i > 1 /\ steps[i - 1] = Step("SetUserPassword", TRUE)
  /\ \A i \in DOMAIN steps :
       steps[i].name = "Finished" =>
         /\ i > 1
         /\ steps[i - 1] =
              IF rootpassword # None THEN Step("SetRootPassword", TRUE)
              ELSE Step("SetUserPassword", TRUE)
  /\ JustFinished =>
       /\ userpw = "ok"
       /\ rootpassword # None => rootpw = "ok"

\* The part of C10 about the order in which the handler takes its steps.
C10_StepOrder ==
  /\ \A i \in DOMAIN steps :
       steps[i].name = "SetRootPassword" =>
         /\ rootpassword # None
         /\ i > 1 /\ steps[i - 1] = Step("SetUserPassword", TRUE)
  /\ \A i \in DOMAIN steps :
       steps[i].name = "Finished" =>
         /\ i > 1
         /\ steps[i - 1] =
              IF rootpassword # None THEN Step("SetRootPassword", TRUE)
              ELSE Step("SetUserPassword", TRUE)

----------------------------------------------------------------------------
(* C11 *)

NoCredentials == username = None \/ password = None

\* C11: when the retained username or password is absent, every call of
\* the credential provisioning fails: the user-password step ends in
\* failure with Error as the message sent for it, neither the root password
\* step nor Finished follows, and no Finished is on the channel for the run.
C11_AbsentCredentialsFail ==
  NoCredentials =>
    /\ \A i \in DOMAIN steps :
         steps[i].name = "SetUserPassword" => ~steps[i].ok
    /\ ~Did("SetRootPassword")
    /\ ~Did("Finished")
    /\ "Finished" \notin Range(RunOut)
    /\ pc \notin {"setrootpasswd", "finish"}
    /\ (pc = "idle" /\ steps # << >> /\ Last(steps).name = "SetUserPassword")
         => (Last(out) = "Error" /\ Len(RunOut) > 0)

\* A FinishInstall message arrived with no Install before it, chpasswd was
\* spawned, and the missing username ended the provisioning.
C11_Witness ==
  /\ runs = 0
  /\ username = None
  /\ pc = "idle"
  /\ steps = << Step("SetUserPassword", FALSE) >>
  /\ lastErr = "No username found"
  /\ userpw # "none"
  /\ out = << "Error" >>

----------------------------------------------------------------------------
(* C12 *)

RootEntries(scheme) == {p \in scheme.parts : p.mountpoint = Some("/")}

\* C12: the boot device handed to the renderer is d for a FullDisk(d)
\* scheme, the device of the "/" entry for a Custom scheme with exactly
\* one entry mounted at "/", and none for a Custom scheme with no such
\* entry.
C12_BootDeviceResolution ==
  (msg.type = "Install" /\ msg.partitions # None /\ Did("RenderConfig")) =>
    LET scheme == msg.partitions[1] IN
    /\ scheme.tag = "FullDisk" => bootdisk = Some(scheme.disk)
    /\ (scheme.tag = "Custom" /\ Cardinality(RootEntries(scheme)) = 1) =>
         \E p \in RootEntries(scheme) : bootdisk = Some(p.device)
    /\ (scheme.tag = "Custom" /\ RootEntries(scheme) = {}) => bootdisk = None

\* The renderer was called for a Custom scheme with one entry mounted at
\* "/" next to an entry that is not, and was handed the device of the
\* former.
C12_Witness ==
  /\ msg.type = "Install"
  /\ msg.partitions # None
  /\ msg.partitions[1].tag = "Custom"
  /\ Cardinality(RootEntries(msg.partitions[1])) = 1
  /\ Cardinality(msg.partitions[1].parts) > 1
  /\ Did("RenderConfig")
  /\ bootdisk = Some("/dev/sdb1")

----------------------------------------------------------------------------
(* C13 *)

BootDiskError == "Failed to get bootloader disk"

\* The Install handler called makeconfig on a legacy machine with no boot
\* disk.
LegacyWithoutBootDisk ==
  msg.type = "Install" /\ Did("RenderConfig") /\ ~efi /\ bootdisk = None

WriteFileIssued(f) == \E i \in DOMAIN cmds : cmds[i] = Cmd("write-file", f)

----------------------------------------------------------------------------
(* C14 *)

VersionError == "Failed to get nixos version"

\* The files whose rendering ended on an unmet substitution.
RenderFailures ==
  {i \in DOMAIN files : files[i].res \in {BootDiskError, VersionError}}

\* C14: a rendering failure in any template file, at any depth of the
\* template tree, aborts the rendering of the remaining files and the
\* pipeline: no file is reached after it, RenderConfig returns failure,
\* Error is emitted and the installer is not dispatched.  Stated for the
\* runs in which no command has failed.
C14_RenderFailureAborts ==
  \A i \in RenderFailures :
    failedAt = 0 =>
    /\ i = Len(files)
    /\ Step("RenderConfig", FALSE) \in Range(steps)
    /\ "Error" \in Range(RunOut)
    /\ RunDispatched = << >>

\* The same for the files of the top directory only.
C14_TopLevelFailureAborts ==
  \A i \in RenderFailures :
    files[i].path = << >> =>
      /\ i = Len(files)
      /\ Step("RenderConfig", FALSE) \in Range(steps)
      /\ "Error" \in Range(RunOut)
      /\ RunDispatched = << >>

----------------------------------------------------------------------------
(* C19 *)

\* C19: once a step of a run has failed and Error was emitted, nothing more
\* happens in that run: no step is executed after the failed one (no
\* further command, no retry), and no Finished follows the Error, whatever
\* FinishInstall messages arrive.
C19_FailedIsAbsorbing ==
  runs > 0 =>
    /\ \A i, j \in DOMAIN steps : (i < j) => steps[i].ok
    /\ \A i, j \in DOMAIN RunOut :
         (i < j /\ RunOut[i] = "Error") => RunOut[j] # "Finished"
    /\ ("Error" \in Range(RunOut)) => pc \notin {"setrootpasswd", "finish"}

\* Within the handling of one message the failure does halt: the only steps
\* executed after a failed step are those of a later FinishInstall message.
C19_HandlerHalts ==
  \A i, j \in DOMAIN steps :
    (i < j /\ ~steps[i].ok) => steps[j].name \in CredentialSteps

\* The weakest reading: no run whose Install failed at one of its steps
\* ends with the user password set and Finished reported.
C19_NoFinishedAfterFailedInstall ==
  ~ /\ runs > 0
    /\ \E i \in DOMAIN steps : ~steps[i].ok /\ steps[i].name \notin CredentialSteps
    /\ DidOk("SetUserPassword")
    /\ Len(RunOut) > 1
    /\ RunOut[1] = "Error"
    /\ Last(RunOut) = "Finished"

----------------------------------------------------------------------------
(* C20 *)

StepIndex(n) == CHOOSE i \in DOMAIN steps : steps[i].name = n

RelocateCommands ==
  {i \in DOMAIN cmds :
     \/ cmds[i].cmd \in {"mkdir", "mv"}
     \/ cmds[i] = Cmd("rm", "configuration.nix")}

\* The position in cmds of nixos-generate-config, 0 when it was not issued.
GenerateIndex ==
  LET g == {i \in DOMAIN cmds : cmds[i].cmd = "nixos-generate-config"}
  IN  IF g = {} THEN 0 ELSE Min(g)

\* The relocation is executed only for the structured layout, between the
\* GenerateBaseConfig step and the RenderConfig step, and always before a
\* structured request is rendered; its commands are issued by no other
\* step, and for the standard layout not at all.
RelocatePlacement ==
  msg.type = "Install" =>
    /\ Did("RelocateForStructuredLayout") =>
         /\ msg.configtype = "Snowfall"
         /\ Did("GenerateBaseConfig")
         /\ StepIndex("GenerateBaseConfig") + 1
              = StepIndex("RelocateForStructuredLayout")
         /\ Did("RenderConfig") =>
              StepIndex("RelocateForStructuredLayout") + 1
                = StepIndex("RenderConfig")
    /\ (msg.configtype = "Snowfall" /\ Did("RenderConfig")) =>
         DidOk("RelocateForStructuredLayout")
    /\ RelocateCommands # {} => Did("RelocateForStructuredLayout")
    /\ msg.configtype = "Standard" => RelocateCommands = {}

\* C20: RelocateForStructuredLayout is executed if and only if the request
\* asks for the structured layout, after GenerateBaseConfig succeeded (its
\* command was run and ended with status zero) and before RenderConfig;
\* for the standard layout none of its commands is issued.
C20_RelocateAfterGenerateSucceeded ==
  /\ RelocatePlacement
  /\ (msg.type = "Install" /\ Did("RelocateForStructuredLayout")) =>
       (GenerateIndex # 0 /\ failedAt # GenerateIndex)

\* The same with "succeeded" read as the code reads it: the command could
\* be spawned.
C20_RelocateAfterGenerateReturned ==
  /\ RelocatePlacement
  /\ (msg.type = "Install" /\ Did("RelocateForStructuredLayout")) =>
       steps[StepIndex("GenerateBaseConfig")].ok

----------------------------------------------------------------------------
(* C15 *)

\* How often token t occurs in a content.
Count(cfg, t) == Cardinality({i \in DOMAIN cfg : cfg[i] = t})

AfterUserStep == rpc \in {"list", "packages", "stateversion", "written"}

UserMarkersLeft ==
  \A m \in {"USERNAME", "FULLNAME", "HOSTNAME"} :
    Count(config, Marker(m)) = Count(rmc.template, Marker(m))

\* C15: once a file is rendered with no user configured, its autologin
\* marker is gone with nothing put in its place, and its username, fullname
\* and hostname markers are all still there.
C15_NoUserClearsAutologin ==
  (rmc.user = None /\ AfterUserStep) =>
    /\ Count(config, Marker("AUTOLOGIN")) = 0
    /\ UserMarkersLeft

\* What the code does with no user: all four markers are left as they are.
C15_NoUserLeavesAllFour ==
  (rmc.user = None /\ AfterUserStep) =>
    /\ Count(config, Marker("AUTOLOGIN"))
         = Count(rmc.template, Marker("AUTOLOGIN"))
    /\ UserMarkersLeft

----------------------------------------------------------------------------
(* C16 *)

\* The markers that this rendering replaces: those replaced always, and
\* those whose input is present.
Replaced ==
  {"NVIDIAOFFLOAD", "ARCH", "BOOTLOADER", "NETWORK", "DESKTOP", "PACKAGES",
   "STATEVERSION"}
  \cup (IF rmc.timezone # None THEN {"TIMEZONE"} ELSE {})
  \cup (IF rmc.language # None THEN {"LOCALE"} ELSE {})
  \cup (IF rmc.keyboard # None THEN {"KEYBOARD"} ELSE {})
  \cup (IF rmc.user # None
        THEN {"USERNAME", "FULLNAME", "HOSTNAME", "AUTOLOGIN"} ELSE {})
  \cup {rmc.selection[i].id : i \in DOMAIN rmc.selection}

\* C16: each token is replaced at most once per file: of the occurrences
\* of a token in the template all but the first are still in the rendered
\* file.
C16_FirstMatchOnly ==
  \A m \in Replaced :
    Count(config, Marker(m)) >= Count(rmc.template, Marker(m)) - 1

\* C16, amended: every occurrence of a token that is replaced at all is
\* replaced: none is left in the rendered file, and a value that replaces
\* a token occurs as often as the token did.
C16_EveryMatchReplaced ==
  rpc = "written" =>
    /\ \A m \in Replaced : Count(config, Marker(m)) = 0
    /\ rmc.user # None =>
         Count(config, Value(Str(rmc.user[1].hostname)))
           = Count(rmc.template, Marker("HOSTNAME"))
    /\ Count(config, PackagesStanza(extrapkgs))
         = Count(rmc.template, Marker("PACKAGES"))

\* A file with two hostname markers was rendered for a user: both were
\* replaced by the hostname.
C16_Witness ==
  /\ rpc = "written"
  /\ rmc.user # None
  /\ Count(rmc.template, Marker("HOSTNAME")) = 2
  /\ Count(config, Value(Str(rmc.user[1].hostname))) = 2
  /\ Count(config, Marker("HOSTNAME")) = 0

----------------------------------------------------------------------------
(* C17 *)

RECURSIVE Flatten(_)
Flatten(ss) == IF ss = << >> THEN << >> ELSE Head(ss) \o Flatten(Tail(ss))

\* The packages an option contributes.
PackagesOf(sel) ==
  IF sel.choice.packages = None THEN << >> ELSE sel.choice.packages[1]

\* The packages of the selected options, in the order of selection.
SelectedPackages ==
  Flatten([i \in DOMAIN rmc.selection |-> PackagesOf(rmc.selection[i])])

\* The package lists of the packages stanzas of the content.
PackageLists ==
  {config[i].args : i \in {j \in DOMAIN config :
                             config[j].kind = "stanza"
                             /\ config[j].name = "packages"}}

Baseline == Str("firefox")

AsArgs(pkgs) == [i \in DOMAIN pkgs |-> Str(pkgs[i])]

\* C17: the packages stanza lists the baseline package and then the
\* packages of the selected options in the order of selection, duplicates
\* included.
C17_SelectionOrder ==
  rpc \in {"stateversion", "written"} =>
    \A l \in PackageLists : l = << Baseline >> \o AsArgs(SelectedPackages)

\* The options in the orders in which the two levels of the map can yield
\* them: the options of one group stay together.
Groupwise(q) ==
  \A i, j, k \in DOMAIN q :
    (i < j /\ j < k /\ rmc.selection[q[i]].id = rmc.selection[q[k]].id)
      => rmc.selection[q[j]].id = rmc.selection[q[i]].id

\* C17, amended: the packages stanza lists the baseline package and then,
\* option by option, the packages of every selected option, each option's
\* packages in the option's own order and duplicates included; the options
\* come group by group, in no fixed order.
C17_SomeOptionOrder ==
  rpc \in {"stateversion", "written"} =>
    \A l \in PackageLists :
      \E q \in Perms(DOMAIN rmc.selection) :
        /\ Groupwise(q)
        /\ l = << Baseline >>
               \o AsArgs(Flatten([i \in DOMAIN q |->
                                    PackagesOf(rmc.selection[q[i]])]))

\* Options contributing [pkgA] and [pkgB, pkgC], selected in that order,
\* rendered as baseline, pkgB, pkgC, pkgA.
C17_Witness ==
  /\ rpc = "written"
  /\ SelectedPackages = << "pkgA", "pkgB", "pkgC" >>
  /\ PackageLists = {AsArgs(<< "firefox", "pkgB", "pkgC", "pkgA" >>)}

\* Two options contributing the same package: it is listed twice.
C17_DuplicateWitness ==
  /\ rpc = "written"
  /\ SelectedPackages = << "pkgA", "pkgA" >>
  /\ PackageLists = {AsArgs(<< "firefox", "pkgA", "pkgA" >>)}

----------------------------------------------------------------------------
(* C18 *)

Pluses(k) == {i \in DOMAIN k : k[i] = "+"}

KeyboardStanzas ==
  {config[i] : i \in {j \in DOMAIN config :
                        config[j].kind = "stanza"
                        /\ config[j].name \in {"keyboard", "keyboard-variant"}}}

AfterKeyboardStep ==
  rpc \in {"user", "list", "packages", "stateversion", "written"}

\* Without a '+' the stanza is layout-only with the whole string as layout;
\* without a keyboard string the marker is left as it is.
KeyboardOtherCases ==
  /\ (rmc.keyboard # None /\ Pluses(rmc.keyboard[1]) = {}) =>
       KeyboardStanzas \subseteq {Stanza("keyboard", << rmc.keyboard[1] >>)}
  /\ rmc.keyboard = None =>
       /\ KeyboardStanzas = {}
       /\ Count(config, Marker("KEYBOARD"))
            = Count(rmc.template, Marker("KEYBOARD"))
  /\ rmc.keyboard # None => Count(config, Marker("KEYBOARD")) = 0

\* C18: for a keyboard string with a '+' the stanza has the text before
\* the first '+' as layout and the text after it as variant; the other
\* cases as above.
C18_VariantIsRest ==
  AfterKeyboardStep =>
    /\ (rmc.keyboard # None /\ Pluses(rmc.keyboard[1]) # {}) =>
         LET k == rmc.keyboard[1]
             p == Min(Pluses(k))
         IN  KeyboardStanzas \subseteq
               {Stanza("keyboard-variant",
                       << SubSeq(k, 1, p - 1), SubSeq(k, p + 1, Len(k)) >>)}
    /\ KeyboardOtherCases

\* C18, amended: for a keyboard string with a '+' the stanza has the text
\* before the first '+' as layout and, as variant, the text between the
\* first '+' and the second '+', or the end of the string when there is no
\* second; the other cases as above.
C18_VariantIsSecondSegment ==
  AfterKeyboardStep =>
    /\ (rmc.keyboard # None /\ Pluses(rmc.keyboard[1]) # {}) =>
         LET k == rmc.keyboard[1]
             p == Min(Pluses(k))
             later == Pluses(k) \ {p}
             e == IF later = {} THEN Len(k) ELSE Min(later) - 1
         IN  KeyboardStanzas \subseteq
               {Stanza("keyboard-variant",
                       << SubSeq(k, 1, p - 1), SubSeq(k, p + 1, e) >>)}
    /\ KeyboardOtherCases

\* The keyboard string u+i+x rendered with layout u and variant i.
C18_Witness ==
  /\ AfterKeyboardStep
  /\ rmc.keyboard = Some(<< "u", "+", "i", "+", "x" >>)
  /\ KeyboardStanzas = {Stanza("keyboard-variant", << << "u" >>, << "i" >> >>)}

----------------------------------------------------------------------------
(* C21 *)

\* C21: at every moment the retained username, password and root password
\* are those of the user of the most recently received Install message,
\* and none when that message had no user or no Install was received yet;
\* whether that request failed or dispatched the installer makes no
\* difference, and FinishInstall messages change nothing.
C21_RetainedAreLatestInstall ==
  /\ runs = 0 => lastUser = None
  /\ lastUser = None =>
       (username = None /\ password = None /\ rootpassword = None)
  /\ lastUser # None =>
       /\ username = Some(lastUser[1].username)
       /\ password = Some(lastUser[1].password)
       /\ rootpassword = lastUser[1].rootpassword
  /\ msg.type = "Install" => lastUser = msg.user

\* An Install for bob dispatched the installer, a later Install for carol
\* failed before dispatching anything, and the FinishInstall that followed
\* set carol's password, not bob's.
C21_Witness ==
  /\ runs = 2
  /\ msg.type = "FinishInstall"
  /\ Len(broker) = 1
  /\ broker[1].flake = "host2"
  /\ RunDispatched = << >>
  /\ RunOut[1] = "Error"
  /\ lastUser # None
  /\ lastUser[1].username = "carol"
  /\ username = Some("carol")
  /\ password = Some("pw3")
  /\ DidOk("SetUserPassword")

----------------------------------------------------------------------------
(* C22 *)

\* The run has an outcome: Error or Finished was sent for it.
HasOutcome == \E i \in DOMAIN RunOut : RunOut[i] \in {"Error", "Finished"}

\* The run waits for the installer: its command was dispatched and the
\* FinishInstall message for it is still to come.
AwaitsInstaller ==
  msg.type = "Install" /\ pc = "idle" /\ RunDispatched # << >>

\* C22: the pipeline never stops in an intermediate step without an
\* outcome: whenever an Install was received and update can take no
\* further step by itself, either Error or Finished was sent for the run or
\* the run waits for the installer to complete.
C22_NeverStopsWithoutOutcome ==
  (runs > 0 /\ ~ENABLED HandlerStep) => (HasOutcome \/ AwaitsInstaller)

\* The same for the handlers that return: a handler that has returned left
\* an outcome or the dispatched installer command behind.
C22_ReturnedWithOutcome ==
  /\ (runs > 0 /\ pc = "idle") => (HasOutcome \/ AwaitsInstaller)
  /\ (msg.type = "FinishInstall" /\ pc = "idle") =>
       (out # << >> /\ Last(out) \in {"Error", "Finished"})

\* Every handler ends: it returns or it panics.
C22_HandlerEnds == (pc # "idle") ~> (pc \in {"idle", "panicked"})

\* A FinishInstall message that is received is answered with Error or
\* Finished.
C22_FinishInstallAnswered ==
  (msg.type = "FinishInstall" /\ pc = "setuserpasswd")
    ~> (pc = "idle" /\ out # << >> /\ Last(out) \in {"Error", "Finished"})

====
